---- MODULE Spec2Model ----
(***************************************************************************)
(* ConnPool of pkg/grpc/client (options.go): a per-address gRPC connection *)
(* pool with load counting, a periodic cleanup goroutine, CloseAddress and *)
(* Close.  Goroutines are modelled as processes with a program counter;    *)
(* one action is one critical section (or one blocking call) of a method.  *)
(***************************************************************************)
EXTENDS Integers, Sequences, FiniteSets, TLC

\* ---------------------------------------------------------------- bounds
NumClients == 2        \* caller goroutines
MaxPools == 2          \* AddressPool objects ever allocated
MaxDials == 2          \* successful grpc.Dial calls
MaxTime == 1           \* clock ticks
MaxOverRelease == 1    \* ReleaseConn calls beyond the check-outs of one handle
MaxCalls == 3          \* method calls the callers make in one run

Clients == 1..NumClients
Reclaimer == 0
NoOne == -1
Addresses == {"a", "b"}
OneAddress == {"a"}          \* the address the callers of Spec use
NoAddress == ""
PoolIds == 1..MaxPools
NoPool == 0
ConnIds == 1..MaxDials
NoConn == 0
Foreign == MaxDials + 1      \* a *grpc.ClientConn this pool never dialed

\* connectivity.State of a handle that has not been closed (Idle is handled by
\* every branch of the pool exactly as Connecting is: neither Ready nor failed)
LiveStates == {"Connecting", "Ready", "TransientFailure"}

\* what GetState reports for a connection of the pool: Shutdown once Close was
\* called on it, by the pool or by a caller that holds the handle
ConnStates == LiveStates \cup {"Shutdown"}

\* PoolConfig values the pool is constructed with (durations in clock ticks):
\* a saturating pool whose entries expire by idle time first, and a pool of
\* two connections of load two whose entries expire by lifetime first
Configs ==
  {[MinConnsPerAddr |-> 1, MaxConnsPerAddr |-> 1, MaxIdleConns |-> 0,
    MaxLoadPerConn |-> 1, ConnMaxLifetime |-> 1, ConnMaxIdleTime |-> 0],
   [MinConnsPerAddr |-> 2, MaxConnsPerAddr |-> 2, MaxIdleConns |-> 1,
    MaxLoadPerConn |-> 2, ConnMaxLifetime |-> 0, ConnMaxIdleTime |-> 0]}

VARIABLES
  config,         \* ConnPool.config
  pools,          \* ConnPool.pools: address -> AddressPool (NoPool = no key)
  poolsNil,       \* ConnPool.pools == nil
  mu,             \* ConnPool.mu: writer (holding or draining readers), readers
  cleanupC,       \* ticks buffered in ConnPool.cleanup.C (capacity 1)
  cleanupStopped, \* ConnPool.cleanup.Stop() was called
  stopChan,       \* ConnPool.stopChan is closed
  poolMu,         \* AddressPool.mu of every allocated AddressPool
  address,        \* AddressPool.address
  unaryConns,     \* AddressPool.unaryConns
  streamConns,    \* AddressPool.streamConns
  nextPool,       \* AddressPool objects allocated so far
  nextConn,       \* connections dialed so far
  connState,      \* ClientConn.GetState() of every dialed connection
  closeCount,     \* ClientConn.Close() calls the pool made on a connection
  now,            \* time.Now()
  pc,             \* position of every goroutine
  local,          \* arguments and local variables of the running method
  calls,          \* method calls made so far
  ret,            \* what the last step returned to its caller, if it returned
                  \* (conn: the handle returned, released, or whose Close failed),
                  \* or that it was the cleanup of an AddressPool
  out,            \* per handle: GetConn calls that returned it minus ReleaseConn
                  \* calls made with it
  dialed,         \* per handle: the address and mode GetConn dialed it for
  closeFailed     \* handles whose Close, called by CloseAddress or Close,
                  \* returned an error

vars == <<config, pools, poolsNil, mu, cleanupC, cleanupStopped, stopChan,
          poolMu, address, unaryConns, streamConns, nextPool, nextConn,
          connState, closeCount, now, pc, local, calls, ret, out, dialed,
          closeFailed>>

history == <<out, dialed, closeFailed>>

poolVars == <<pools, poolsNil, address, unaryConns, streamConns, nextPool>>
connVars == <<nextConn, connState, closeCount>>
tickerVars == <<cleanupC, cleanupStopped, stopChan>>

\* ---------------------------------------------------------------- helpers
\* the counters Stats keeps per address and in total (options.go:588-594)
Counters0 ==
  [total_connections |-> 0, ready_connections |-> 0, idle_connections |-> 0,
   failed_connections |-> 0, total_load |-> 0]

\* stats["unary"] and stats["stream"] as Stats creates them: by_address is a
\* map without keys (keys: the addresses by_address has an element for)
ModeStats0 ==
  [keys |-> {}, by_address |-> [a \in Addresses |-> Counters0], total |-> Counters0]

\* the map Stats starts with (options.go:586-607)
Stats0 == [unary |-> ModeStats0, stream |-> ModeStats0]

Local0 ==
  [address |-> NoAddress, isStream |-> FALSE, conn |-> NoConn,
   pool |-> NoPool, todo |-> {}, lastErr |-> NoConn, stats |-> Stats0]

Ret0 ==
  [p |-> NoOne, op |-> "none", err |-> "none", conn |-> NoConn, stats |-> Stats0,
   start |-> NoOne]

\* the cleanup goroutine finished the loops over one AddressPool (conn: the
\* last handle it closed for being idle, if any)
Swept(idle) == [Ret0 EXCEPT !.p = Reclaimer, !.op = "cleanupLoop", !.conn = idle]

Range(s) == {s[i] : i \in 1..Len(s)}

\* the collection GetConn works on (options.go:416-419)
Conns(pid, isStream) == IF isStream THEN streamConns[pid] ELSE unaryConns[pid]

\* AddressPools the map holds: what `range p.pools` visits
MappedPools == IF poolsNil THEN {} ELSE {pools[a] : a \in Addresses} \ {NoPool}

GetState(c) == connState[c]

IsFailed(c) == GetState(c) = "TransientFailure" \/ GetState(c) = "Shutdown"

\* mutant: the load is not looked at
Selectable_ready(connInfo) == GetState(connInfo.conn) = "Ready"

\* mutant: an entry at MaxLoadPerConn still counts as free
Selectable_le(connInfo) ==
  /\ GetState(connInfo.conn) = "Ready"
  /\ connInfo.load <= config.MaxLoadPerConn

\* the test of the selection loop (options.go:432-434)
Selectable(connInfo) ==
  /\ GetState(connInfo.conn) = "Ready"
  /\ connInfo.load < config.MaxLoadPerConn

\* index := (startIndex + i) % len(conns), 1-based
ScanIndex(startIndex, i, n) == ((startIndex + i) % n) + 1

\* mutant: the scan stops at the end of the collection instead of wrapping
SelectIndex_nowrap(conns, startIndex) ==
  LET n == Len(conns)
      hits == {i \in 0..(n - 1 - startIndex) :
                 Selectable(conns[ScanIndex(startIndex, i, n)])}
  IN IF hits = {} THEN 0
     ELSE ScanIndex(startIndex, CHOOSE i \in hits : \A j \in hits : i <= j, n)

\* mutant: the scan goes on to the last selectable entry
SelectIndex_last(conns, startIndex) ==
  LET n == Len(conns)
      hits == {i \in 0..(n - 1) : Selectable(conns[ScanIndex(startIndex, i, n)])}
  IN IF hits = {} THEN 0
     ELSE ScanIndex(startIndex, CHOOSE i \in hits : \A j \in hits : j <= i, n)

\* the first selectable index met by the circular scan, 0 if none
SelectIndex(conns, startIndex) ==
  LET n == Len(conns)
      hits == {i \in 0..(n - 1) : Selectable(conns[ScanIndex(startIndex, i, n)])}
  IN IF hits = {} THEN 0
     ELSE ScanIndex(startIndex, CHOOSE i \in hits : \A j \in hits : i <= j, n)

\* mutant: the load is raised twice
Checkout_twice(connInfo) == [connInfo EXCEPT !.lastUsed = now, !.load = @ + 2]

\* connInfo.lastUsed = time.Now(); connInfo.load.Add(1)
Checkout(connInfo) == [connInfo EXCEPT !.lastUsed = now, !.load = @ + 1]

\* mutant: the fresh entry is not checked out
NewConnInfo_zero(c, isStream) ==
  [conn |-> c, lastUsed |-> now, createdAt |-> now, state |-> "Ready",
   load |-> 0, isStream |-> isStream]

\* the ConnInfo GetConn builds for a fresh connection (options.go:450-457)
NewConnInfo(c, isStream) ==
  [conn |-> c, lastUsed |-> now, createdAt |-> now, state |-> "Ready",
   load |-> 1, isStream |-> isStream]

\* mutant: off by one in the capacity test
MayDial_le(conns) == Len(conns) <= config.MaxConnsPerAddr

\* len(conns) < p.config.MaxConnsPerAddr
MayDial(conns) == Len(conns) < config.MaxConnsPerAddr

\* mutant: the first entry matches whatever handle it holds
FindConn_first(conns, c) == IF Len(conns) > 0 THEN 1 ELSE 0

\* index of the entry holding conn, 0 if none
FindConn(conns, c) ==
  IF \E i \in 1..Len(conns) : conns[i].conn = c
  THEN CHOOSE i \in 1..Len(conns) :
         conns[i].conn = c /\ \A j \in 1..(i - 1) : conns[j].conn # c
  ELSE 0

\* mutant: the load is lowered twice
Decrement_two(load) == load - 2

\* connInfo.load.Add(-1)
Decrement(load) == load - 1

\* now.Sub(conn.lastUsed) > ConnMaxIdleTime || now.Sub(conn.createdAt) > ConnMaxLifetime
Expired(connInfo) ==
  \/ now - connInfo.lastUsed > config.ConnMaxIdleTime
  \/ now - connInfo.createdAt > config.ConnMaxLifetime

\* mutant: a broken entry is only removed when it is not checked out
Evict_unused(connInfo) ==
  connInfo.load = 0 /\ (IsFailed(connInfo.conn) \/ Expired(connInfo))

\* mutant: only broken entries are removed
Evict_failed(connInfo) == IsFailed(connInfo.conn)

\* mutant: the idle test does not look at the load
Evict_anyload(connInfo) == IsFailed(connInfo.conn) \/ Expired(connInfo)

\* the two removal tests of the cleanup loop (options.go:523-524, 533-535)
Evict(connInfo) ==
  \/ IsFailed(connInfo.conn)
  \/ connInfo.load = 0 /\ Expired(connInfo)

\* mutant: the slice is shortened without the swap
RemoveAt_last(conns, k) == SubSeq(conns, 1, Len(conns) - 1)

\* conns[i] = conns[len-1]; conns = conns[:len-1]   (k is 1-based)
RemoveAt(conns, k) == SubSeq([conns EXCEPT ![k] = conns[Len(conns)]], 1, Len(conns) - 1)

\* mutant: the index is not taken back after a removal
AfterRemoval_skip(i) == i + 1

\* the index after an iteration of the cleanup loop that removed an entry: i--; i++
AfterRemoval(i) == i

\* the for loop of cleanupLoop over one collection, from index i (0-based);
\* closed lists the handles in the order the loop closes them
RECURSIVE CleanupConns(_, _, _)
CleanupConns(conns, i, closed) ==
  IF i >= Len(conns) THEN [conns |-> conns, closed |-> closed]
  ELSE IF Evict(conns[i + 1])
       THEN CleanupConns(RemoveAt(conns, i + 1), AfterRemoval(i),
                         Append(closed, conns[i + 1].conn))
       ELSE CleanupConns(conns, i + 1, closed)

\* the last handle of cs that was not broken when the loop closed it
IdleClosed(cs) ==
  LET idle == {i \in 1..Len(cs) : ~IsFailed(cs[i])}
  IN IF idle = {} THEN NoConn ELSE cs[CHOOSE i \in idle : \A j \in idle : j <= i]

\* handles of a collection, in range order
Handles(conns) == [i \in 1..Len(conns) |-> conns[i].conn]

\* every handle an AddressPool holds
PoolHandles(pid) == Range(Handles(unaryConns[pid])) \cup Range(Handles(streamConns[pid]))

HeldHandles == UNION {PoolHandles(pid) : pid \in PoolIds}

\* conn.Close() on every handle of cs: the handle reports Shutdown from then on
CloseHandles(cs) ==
  /\ connState' = [c \in ConnIds |-> IF c \in Range(cs) THEN "Shutdown" ELSE connState[c]]
  /\ closeCount' = [c \in ConnIds |->
                      LET n == closeCount[c] + Cardinality({i \in 1..Len(cs) : cs[i] = c})
                      IN IF n < 2 THEN n ELSE 2]
  /\ UNCHANGED <<nextConn, out, dialed>>

\* mutant: the first error is kept
LastErr_first(prev, cs, errs) ==
  LET bad == {i \in 1..Len(cs) : cs[i] \in errs}
  IN IF prev # NoConn \/ bad = {} THEN prev
     ELSE cs[CHOOSE i \in bad : \A j \in bad : i <= j]

\* lastErr after closing cs when the Close calls of the handles in errs fail
LastErr(prev, cs, errs) ==
  LET bad == {i \in 1..Len(cs) : cs[i] \in errs}
  IN IF bad = {} THEN prev ELSE cs[CHOOSE i \in bad : \A j \in bad : j <= i]

ErrOf(lastErr) == IF lastErr = NoConn THEN "nil" ELSE "CloseError"

\* ---------------------------------------------------------------- ConnPool.mu
\* p.mu.Lock() returns at once: no writer, no reader
LockFree == mu.w = NoOne /\ mu.r = {}

\* p.mu.Lock() has to wait for the readers; from then on RLock callers wait
LockBusy == mu.w = NoOne /\ mu.r # {}

\* a waiting p.mu.Lock() of p returns: the readers are gone
LockGranted(p) == mu.w = p /\ mu.r = {}

\* p.mu.RLock() returns: no writer holds the lock or waits for it
CanRLock == mu.w = NoOne

Unlock == mu' = [mu EXCEPT !.w = NoOne]

RUnlock(p) == mu' = [mu EXCEPT !.r = @ \ {p}]

NoReturn == ret' = Ret0

Return(p, op, err, c) ==
  /\ pc' = [pc EXCEPT ![p] = "idle"]
  /\ local' = [local EXCEPT ![p] = Local0]
  /\ ret' = [Ret0 EXCEPT !.p = p, !.op = op, !.err = err, !.conn = c]

\* GetConn returns the handle of the entry its scan from startIndex selected
Selected(p, c, startIndex) ==
  /\ pc' = [pc EXCEPT ![p] = "idle"]
  /\ local' = [local EXCEPT ![p] = Local0]
  /\ ret' = [Ret0 EXCEPT !.p = p, !.op = "GetConn", !.err = "nil", !.conn = c,
                         !.start = startIndex]

Goto(p, label, l) ==
  /\ pc' = [pc EXCEPT ![p] = label]
  /\ local' = [local EXCEPT ![p] = l]
  /\ NoReturn

\* a caller goroutine makes its next call
Call(p) ==
  /\ pc[p] = "idle"
  /\ calls < MaxCalls
  /\ calls' = calls + 1

\* ---------------------------------------------------------------- GetConn
\* mutant: a discarded map is made anew
GetConn_pools_make(p, a, s) ==
  IF pools[a] # NoPool
  THEN /\ Goto(p, "GetConn_pool", [Local0 EXCEPT !.address = a, !.isStream = s,
                                                 !.pool = pools[a]])
       /\ Unlock
       /\ UNCHANGED poolVars
  ELSE /\ nextPool < MaxPools
       /\ nextPool' = nextPool + 1
       /\ address' = [address EXCEPT ![nextPool + 1] = a]
       /\ pools' = [pools EXCEPT ![a] = nextPool + 1]
       /\ poolsNil' = FALSE
       /\ Goto(p, "GetConn_pool", [Local0 EXCEPT !.address = a, !.isStream = s,
                                                 !.pool = nextPool + 1])
       /\ Unlock
       /\ UNCHANGED <<unaryConns, streamConns>>

\* mutant: for an address without an AddressPool the AddressPool allocated last
\* is put back into the map
GetConn_pools_stale(p, a, s) ==
  IF poolsNil
  THEN /\ Return(p, "GetConn", "panic", NoConn)
       /\ mu' = [mu EXCEPT !.w = p]
       /\ UNCHANGED poolVars
  ELSE LET pid == IF pools[a] # NoPool THEN pools[a]
                  ELSE IF nextPool > 0 THEN nextPool ELSE 1
       IN /\ nextPool' = IF nextPool = 0 THEN 1 ELSE nextPool
          /\ address' = [address EXCEPT ![pid] = a]
          /\ pools' = [pools EXCEPT ![a] = pid]
          /\ Goto(p, "GetConn_pool", [Local0 EXCEPT !.address = a, !.isStream = s,
                                                    !.pool = pid])
          /\ Unlock
          /\ UNCHANGED <<poolsNil, unaryConns, streamConns>>

\* options.go:402-411, under p.mu
GetConn_pools(p, a, s) ==
  IF poolsNil
  THEN \* assignment to an entry of a nil map panics; p.mu is never unlocked
       /\ Return(p, "GetConn", "panic", NoConn)
       /\ mu' = [mu EXCEPT !.w = p]
       /\ UNCHANGED poolVars
  ELSE IF pools[a] # NoPool
  THEN /\ Goto(p, "GetConn_pool", [Local0 EXCEPT !.address = a, !.isStream = s,
                                                 !.pool = pools[a]])
       /\ Unlock
       /\ UNCHANGED poolVars
  ELSE /\ nextPool' = nextPool + 1
       /\ address' = [address EXCEPT ![nextPool + 1] = a]
       /\ pools' = [pools EXCEPT ![a] = nextPool + 1]
       /\ Goto(p, "GetConn_pool", [Local0 EXCEPT !.address = a, !.isStream = s,
                                                 !.pool = nextPool + 1])
       /\ Unlock
       /\ UNCHANGED <<poolsNil, unaryConns, streamConns>>

\* options.go:400-401: the call, up to p.mu.Lock()
GetConn(p, a, s) ==
  /\ Call(p)
  /\ poolsNil \/ pools[a] # NoPool \/ nextPool < MaxPools
  /\ \/ LockFree /\ GetConn_pools(p, a, s)
     \/ /\ LockBusy
        /\ mu' = [mu EXCEPT !.w = p]
        /\ Goto(p, "GetConn", [Local0 EXCEPT !.address = a, !.isStream = s])
        /\ UNCHANGED poolVars
  /\ UNCHANGED <<config, connVars, tickerVars, poolMu, now, history>>

\* options.go:401-411: p.mu.Lock() returns after the readers left
GetConn_locked(p) ==
  /\ pc[p] = "GetConn"
  /\ LockGranted(p)
  /\ GetConn_pools(p, local[p].address, local[p].isStream)
  /\ UNCHANGED <<calls, config, connVars, tickerVars, poolMu, now, history>>

\* mutant: every collection is stored as the unary one
SetConns_unary(pid, isStream, conns) ==
  /\ unaryConns' = [unaryConns EXCEPT ![pid] = conns]
  /\ UNCHANGED streamConns

\* options.go:459-463: the collection of the mode gets the new slice
SetConns(pid, isStream, conns) ==
  IF isStream
  THEN /\ streamConns' = [streamConns EXCEPT ![pid] = conns]
       /\ UNCHANGED unaryConns
  ELSE /\ unaryConns' = [unaryConns EXCEPT ![pid] = conns]
       /\ UNCHANGED streamConns

\* options.go:413-444 and 467-469: pool.mu.Lock(), the selection loop, the
\* capacity test; on the way to grpc.Dial pool.mu stays locked
GetConn_select(p) ==
  /\ pc[p] = "GetConn_pool"
  /\ poolMu[local[p].pool] = NoOne
  /\ LET pid == local[p].pool
         s == local[p].isStream
         conns == Conns(pid, s)
     IN \E startIndex \in 0..(IF Len(conns) = 0 THEN 0 ELSE Len(conns) - 1) :
        LET index == IF Len(conns) > 0 THEN SelectIndex(conns, startIndex) ELSE 0
        IN IF index # 0
           THEN /\ SetConns(pid, s, [conns EXCEPT ![index] = Checkout(conns[index])])
                /\ out' = [out EXCEPT ![conns[index].conn] = @ + 1]
                /\ UNCHANGED <<dialed, closeFailed>>
                /\ Selected(p, conns[index].conn, startIndex)
                /\ UNCHANGED poolMu
           ELSE IF MayDial(conns)
           THEN /\ poolMu' = [poolMu EXCEPT ![pid] = p]
                /\ Goto(p, "GetConn_dial", local[p])
                /\ UNCHANGED <<unaryConns, streamConns, history>>
           ELSE /\ Return(p, "GetConn", "PoolExhausted", NoConn)
                /\ UNCHANGED <<unaryConns, streamConns, poolMu, history>>
  /\ UNCHANGED <<calls, config, pools, poolsNil, address, nextPool, connVars,
                 tickerVars, mu, now>>

\* mutant: a failed dial sends the call back to the selection
DialFailed_retry(p) ==
  /\ Goto(p, "GetConn_pool", local[p])
  /\ UNCHANGED <<unaryConns, streamConns, connVars, history>>

\* options.go:446-448: grpc.Dial returned an error
DialFailed(p) ==
  /\ Return(p, "GetConn", "DialFailed", NoConn)
  /\ UNCHANGED <<unaryConns, streamConns, connVars, history>>

\* mutant: the dial hands back the connection that was dialed last
Dial_again == IF nextConn > 0 THEN nextConn ELSE 1

\* conn, err := grpc.Dial(address, opts...) with a nil error: a new connection
Dial == nextConn + 1

\* options.go:445-465: grpc.Dial returns; pool.mu is unlocked on return
GetConn_dial(p) ==
  /\ pc[p] = "GetConn_dial"
  /\ LET pid == local[p].pool
         s == local[p].isStream
         c == Dial
     IN \/ DialFailed(p)
        \/ /\ nextConn < MaxDials
           /\ nextConn' = c
           /\ connState' = [connState EXCEPT ![c] = "Connecting"]
           /\ SetConns(pid, s, Append(Conns(pid, s), NewConnInfo(c, s)))
           /\ out' = [out EXCEPT ![c] = 1]
           /\ dialed' = [dialed EXCEPT ![c] = [address |-> local[p].address,
                                               isStream |-> s]]
           /\ Return(p, "GetConn", "nil", c)
           /\ UNCHANGED <<closeCount, closeFailed>>
  /\ poolMu' = [poolMu EXCEPT ![local[p].pool] = NoOne]
  /\ UNCHANGED <<calls, config, pools, poolsNil, address, nextPool, tickerVars, mu, now>>

\* ---------------------------------------------------------------- ReleaseConn
Issued == {c \in ConnIds : c <= nextConn}

\* options.go:475-479: the call, p.mu.RLock(), start of `range p.pools`
ReleaseConn(p, c) ==
  /\ Call(p)
  /\ c \in Issued \cup {Foreign}
  /\ c \in Issued => out[c] > -MaxOverRelease
  /\ CanRLock
  /\ IF MappedPools = {}
     THEN /\ Return(p, "ReleaseConn", "nil", c)
          /\ UNCHANGED mu
     ELSE /\ mu' = [mu EXCEPT !.r = @ \cup {p}]
          /\ Goto(p, "ReleaseConn_range", [Local0 EXCEPT !.conn = c, !.todo = MappedPools])
  /\ out' = [x \in ConnIds |-> IF x = c THEN out[x] - 1 ELSE out[x]]
  /\ UNCHANGED <<dialed, closeFailed>>
  /\ UNCHANGED <<config, poolVars, connVars, tickerVars, poolMu, now>>

\* options.go:479-501: one iteration of `range p.pools`
ReleaseConn_range(p) ==
  /\ pc[p] = "ReleaseConn_range"
  /\ \E pid \in local[p].todo :
     /\ poolMu[pid] = NoOne
     /\ LET c == local[p].conn
            u == FindConn(unaryConns[pid], c)
            s == FindConn(streamConns[pid], c)
        IN IF u # 0
           THEN /\ unaryConns' = [unaryConns EXCEPT ![pid][u].load = Decrement(@)]
                /\ UNCHANGED streamConns
                /\ RUnlock(p)
                /\ Return(p, "ReleaseConn", "nil", c)
           ELSE IF s # 0
           THEN /\ streamConns' = [streamConns EXCEPT ![pid][s].load = Decrement(@)]
                /\ UNCHANGED unaryConns
                /\ RUnlock(p)
                /\ Return(p, "ReleaseConn", "nil", c)
           ELSE IF local[p].todo = {pid}
           THEN /\ RUnlock(p)
                /\ Return(p, "ReleaseConn", "nil", c)
                /\ UNCHANGED <<unaryConns, streamConns>>
           ELSE /\ Goto(p, "ReleaseConn_range", [local[p] EXCEPT !.todo = @ \ {pid}])
                /\ UNCHANGED <<unaryConns, streamConns, mu>>
  /\ UNCHANGED <<calls, config, pools, poolsNil, address, nextPool, connVars,
                 tickerVars, poolMu, now, history>>

\* ---------------------------------------------------------------- cleanupLoop
\* time.Ticker: a tick is delivered into cleanup.C unless one is still buffered
Ticker ==
  /\ ~cleanupStopped
  /\ cleanupC = 0
  /\ cleanupC' = 1
  /\ NoReturn
  /\ UNCHANGED <<calls, config, poolVars, connVars, cleanupStopped, stopChan, mu,
                 poolMu, now, pc, local, history>>

\* p.mu.RLock() and the start of `range p.pools` (options.go:513-514)
CleanupRLock ==
  IF MappedPools = {}
  THEN /\ pc' = [pc EXCEPT ![Reclaimer] = "select"]
       /\ UNCHANGED <<mu, local>>
  ELSE /\ mu' = [mu EXCEPT !.r = @ \cup {Reclaimer}]
       /\ pc' = [pc EXCEPT ![Reclaimer] = "cleanup_range"]
       /\ local' = [local EXCEPT ![Reclaimer].todo = MappedPools]

\* options.go:511-513: select takes the tick
cleanupLoop_tick ==
  /\ pc[Reclaimer] = "select"
  /\ cleanupC = 1
  /\ cleanupC' = 0
  /\ IF CanRLock THEN CleanupRLock
     ELSE /\ pc' = [pc EXCEPT ![Reclaimer] = "cleanup_rlock"]
          /\ UNCHANGED <<mu, local>>
  /\ NoReturn
  /\ UNCHANGED <<calls, config, poolVars, connVars, cleanupStopped, stopChan, poolMu,
                 now, history>>

\* options.go:513: a blocked p.mu.RLock() returns
cleanupLoop_rlock ==
  /\ pc[Reclaimer] = "cleanup_rlock"
  /\ CanRLock
  /\ CleanupRLock
  /\ NoReturn
  /\ UNCHANGED <<calls, config, poolVars, connVars, tickerVars, poolMu, now, history>>

\* options.go:568-569: select takes the stop signal
cleanupLoop_stop ==
  /\ pc[Reclaimer] = "select"
  /\ stopChan
  /\ pc' = [pc EXCEPT ![Reclaimer] = "stopped"]
  /\ NoReturn
  /\ UNCHANGED <<calls, config, poolVars, connVars, tickerVars, mu, poolMu, now,
                 local, history>>

\* options.go:514-566: one iteration of `range p.pools`
cleanupLoop_range ==
  /\ pc[Reclaimer] = "cleanup_range"
  /\ \E pid \in local[Reclaimer].todo :
     /\ poolMu[pid] = NoOne
     /\ LET u == CleanupConns(unaryConns[pid], 0, <<>>)
            s == CleanupConns(streamConns[pid], 0, <<>>)
        IN /\ unaryConns' = [unaryConns EXCEPT ![pid] = u.conns]
           /\ streamConns' = [streamConns EXCEPT ![pid] = s.conns]
           /\ CloseHandles(u.closed \o s.closed)
           /\ ret' = Swept(IdleClosed(u.closed \o s.closed))
           /\ UNCHANGED closeFailed
     /\ IF local[Reclaimer].todo = {pid}
        THEN /\ RUnlock(Reclaimer)
             /\ pc' = [pc EXCEPT ![Reclaimer] = "select"]
             /\ local' = [local EXCEPT ![Reclaimer] = Local0]
        ELSE /\ local' = [local EXCEPT ![Reclaimer].todo = @ \ {pid}]
             /\ UNCHANGED <<mu, pc>>
  /\ UNCHANGED <<calls, config, pools, poolsNil, address, nextPool, tickerVars,
                 poolMu, now>>

\* ---------------------------------------------------------------- Stats
\* the loop over one collection (options.go:622-635), from counters acc
RECURSIVE AddrStats(_, _)
AddrStats(conns, acc) ==
  IF conns = <<>> THEN acc
  ELSE LET connInfo == Head(conns)
           state == GetState(connInfo.conn)
           load == connInfo.load
           counted ==
             IF state = "Ready"
             THEN [acc EXCEPT !.ready_connections = @ + 1,
                              !.idle_connections = IF load = 0 THEN @ + 1 ELSE @]
             ELSE IF state \in {"TransientFailure", "Shutdown"}
             THEN [acc EXCEPT !.failed_connections = @ + 1]
             ELSE acc
       IN AddrStats(Tail(conns), [counted EXCEPT !.total_load = @ + load])

\* the totals of a mode after the counters of one address were added
\* (options.go:638-643)
AddTotal(total, addrStats) ==
  [total_connections |-> total.total_connections + addrStats.total_connections,
   ready_connections |-> total.ready_connections + addrStats.ready_connections,
   idle_connections |-> total.idle_connections + addrStats.idle_connections,
   failed_connections |-> total.failed_connections + addrStats.failed_connections,
   total_load |-> total.total_load + addrStats.total_load]

\* mutant: the totals are those of the address visited last
PutStats_last(modeStats, addr, conns) ==
  LET addrStats == AddrStats(conns, [Counters0 EXCEPT !.total_connections = Len(conns)])
  IN [keys |-> modeStats.keys \cup {addr},
      by_address |-> [modeStats.by_address EXCEPT ![addr] = addrStats],
      total |-> addrStats]

\* what one iteration of `range p.pools` does to stats["unary"] or
\* stats["stream"] for the collection conns of address addr
PutStats(modeStats, addr, conns) ==
  LET addrStats == AddrStats(conns, [Counters0 EXCEPT !.total_connections = Len(conns)])
  IN [keys |-> modeStats.keys \cup {addr},
      by_address |-> [modeStats.by_address EXCEPT ![addr] = addrStats],
      total |-> AddTotal(modeStats.total, addrStats)]

ReturnStats(p, stats) ==
  /\ pc' = [pc EXCEPT ![p] = "idle"]
  /\ local' = [local EXCEPT ![p] = Local0]
  /\ ret' = [Ret0 EXCEPT !.p = p, !.op = "Stats", !.err = "nil", !.stats = stats]

\* options.go:583-609: the call, p.mu.RLock(), start of `range p.pools`
Stats(p) ==
  /\ Call(p)
  /\ CanRLock
  /\ IF MappedPools = {}
     THEN /\ ReturnStats(p, Stats0)
          /\ UNCHANGED mu
     ELSE /\ mu' = [mu EXCEPT !.r = @ \cup {p}]
          /\ Goto(p, "Stats_range", [Local0 EXCEPT !.todo = MappedPools])
  /\ UNCHANGED <<config, poolVars, connVars, tickerVars, poolMu, now, history>>

\* options.go:609-686: one iteration of `range p.pools`, under pool.mu.RLock()
Stats_range(p) ==
  /\ pc[p] = "Stats_range"
  /\ \E pid \in local[p].todo :
     /\ poolMu[pid] = NoOne
     /\ LET addr == CHOOSE a \in Addresses : pools[a] = pid
            stats == [unary |-> PutStats(local[p].stats.unary, addr, unaryConns[pid]),
                      stream |-> PutStats(local[p].stats.stream, addr, streamConns[pid])]
        IN IF local[p].todo = {pid}
           THEN /\ RUnlock(p)
                /\ ReturnStats(p, stats)
           ELSE /\ Goto(p, "Stats_range", [local[p] EXCEPT !.todo = @ \ {pid},
                                                           !.stats = stats])
                /\ UNCHANGED mu
  /\ UNCHANGED <<calls, config, poolVars, connVars, tickerVars, poolMu, now, history>>

\* ---------------------------------------------------------------- CloseAddress
\* mutant: an address without an AddressPool is reported as an error
CloseAddress_pools_missing(p, a) ==
  IF poolsNil \/ pools[a] = NoPool
  THEN /\ Return(p, "CloseAddress", "CloseError", NoConn)
       /\ UNCHANGED pools
  ELSE /\ pools' = [pools EXCEPT ![a] = NoPool]
       /\ Goto(p, "CloseAddress_pool", [Local0 EXCEPT !.address = a, !.pool = pools[a]])

\* options.go:735-743, under p.mu
CloseAddress_pools(p, a) ==
  IF poolsNil \/ pools[a] = NoPool
  THEN /\ Return(p, "CloseAddress", "nil", NoConn)
       /\ UNCHANGED pools
  ELSE /\ pools' = [pools EXCEPT ![a] = NoPool]
       /\ Goto(p, "CloseAddress_pool", [Local0 EXCEPT !.address = a, !.pool = pools[a]])

\* options.go:733-734: the call, up to p.mu.Lock()
CloseAddress(p, a) ==
  /\ Call(p)
  /\ \/ LockFree /\ CloseAddress_pools(p, a) /\ UNCHANGED mu
     \/ /\ LockBusy
        /\ mu' = [mu EXCEPT !.w = p]
        /\ Goto(p, "CloseAddress", [Local0 EXCEPT !.address = a])
        /\ UNCHANGED pools
  /\ UNCHANGED <<config, poolsNil, address, unaryConns, streamConns, nextPool,
                 connVars, tickerVars, poolMu, now, history>>

\* options.go:734-743: p.mu.Lock() returns after the readers left
CloseAddress_locked(p) ==
  /\ pc[p] = "CloseAddress"
  /\ LockGranted(p)
  /\ CloseAddress_pools(p, local[p].address)
  /\ Unlock
  /\ UNCHANGED <<calls, config, poolsNil, address, unaryConns, streamConns, nextPool,
                 connVars, tickerVars, poolMu, now, history>>

\* options.go:745-771, under pool.mu
CloseAddress_pool(p) ==
  /\ pc[p] = "CloseAddress_pool"
  /\ poolMu[local[p].pool] = NoOne
  /\ LET pid == local[p].pool
         cs == Handles(unaryConns[pid]) \o Handles(streamConns[pid])
     IN /\ unaryConns' = [unaryConns EXCEPT ![pid] = <<>>]
        /\ streamConns' = [streamConns EXCEPT ![pid] = <<>>]
        /\ CloseHandles(cs)
        /\ \E errs \in SUBSET Range(cs) :
             LET lastErr == LastErr(NoConn, cs, errs)
             IN /\ closeFailed' = closeFailed \cup errs
                /\ Return(p, "CloseAddress", ErrOf(lastErr), lastErr)
  /\ UNCHANGED <<calls, config, pools, poolsNil, address, nextPool, tickerVars, mu,
                 poolMu, now>>

\* ---------------------------------------------------------------- Close
\* mutant: a closed stopChan is tolerated
Close_again(p) ==
  /\ Call(p)
  /\ cleanupStopped' = TRUE
  /\ stopChan' = TRUE
  /\ Goto(p, "Close_lock", Local0)
  /\ UNCHANGED <<config, poolVars, connVars, cleanupC, mu, poolMu, now, history>>

\* options.go:698-699: p.cleanup.Stop(); close(p.stopChan)
Close(p) ==
  /\ Call(p)
  /\ cleanupStopped' = TRUE
  /\ IF stopChan
     THEN \* close of a closed channel panics
          /\ Return(p, "Close", "panic", NoConn)
          /\ UNCHANGED stopChan
     ELSE /\ stopChan' = TRUE
          /\ Goto(p, "Close_lock", Local0)
  /\ UNCHANGED <<config, poolVars, connVars, cleanupC, mu, poolMu, now, history>>

\* options.go:701: p.mu.Lock() has to wait for the readers
Close_wait(p) ==
  /\ pc[p] = "Close_lock"
  /\ LockBusy
  /\ mu' = [mu EXCEPT !.w = p]
  /\ NoReturn
  /\ UNCHANGED <<calls, config, poolVars, connVars, tickerVars, poolMu, now, pc,
                 local, history>>

\* options.go:727-728 and the deferred p.mu.Unlock()
Close_return(p, lastErr) ==
  /\ pools' = [a \in Addresses |-> NoPool]
  /\ poolsNil' = TRUE
  /\ Unlock
  /\ Return(p, "Close", ErrOf(lastErr), lastErr)

\* options.go:701-705: p.mu.Lock() returns, start of `range p.pools`
Close_lock(p) ==
  /\ pc[p] = "Close_lock"
  /\ LockFree \/ LockGranted(p)
  /\ IF MappedPools = {}
     THEN Close_return(p, NoConn)
     ELSE /\ mu' = [mu EXCEPT !.w = p]
          /\ Goto(p, "Close_range", [Local0 EXCEPT !.todo = MappedPools])
          /\ UNCHANGED <<pools, poolsNil>>
  /\ UNCHANGED <<calls, config, address, unaryConns, streamConns, nextPool, connVars,
                 tickerVars, poolMu, now, history>>

\* options.go:705-728: one iteration of `range p.pools`
Close_range(p) ==
  /\ pc[p] = "Close_range"
  /\ \E pid \in local[p].todo :
     /\ poolMu[pid] = NoOne
     /\ LET cs == Handles(unaryConns[pid]) \o Handles(streamConns[pid])
        IN /\ unaryConns' = [unaryConns EXCEPT ![pid] = <<>>]
           /\ streamConns' = [streamConns EXCEPT ![pid] = <<>>]
           /\ CloseHandles(cs)
           /\ \E errs \in SUBSET Range(cs) :
                LET lastErr == LastErr(local[p].lastErr, cs, errs)
                IN /\ closeFailed' = closeFailed \cup errs
                   /\ IF local[p].todo = {pid}
                      THEN Close_return(p, lastErr)
                      ELSE /\ Goto(p, "Close_range",
                                   [local[p] EXCEPT !.todo = @ \ {pid},
                                                    !.lastErr = lastErr])
                           /\ UNCHANGED <<pools, poolsNil, mu>>
  /\ UNCHANGED <<calls, config, address, nextPool, tickerVars, poolMu, now>>

\* ---------------------------------------------------------------- environment
\* the connectivity state of an open connection changes: the transport moves it
\* between the live states, conn.Close() of a caller makes it Shutdown
StateChange(c, st) ==
  /\ c \in HeldHandles
  /\ connState[c] \in LiveStates \ {st}
  /\ connState' = [connState EXCEPT ![c] = st]
  /\ NoReturn
  /\ UNCHANGED <<calls, config, poolVars, nextConn, closeCount, tickerVars, mu, poolMu,
                 now, pc, local, history>>

\* time passes
Tick ==
  /\ now < MaxTime
  /\ now' = now + 1
  /\ NoReturn
  /\ UNCHANGED <<calls, config, poolVars, connVars, tickerVars, mu, poolMu, pc, local,
                 history>>

\* ---------------------------------------------------------------- specification
Procs == Clients \cup {Reclaimer}

\* NewConnPool (options.go:379-393)
Init ==
  /\ config \in Configs
  /\ pools = [a \in Addresses |-> NoPool]
  /\ poolsNil = FALSE
  /\ mu = [w |-> NoOne, r |-> {}]
  /\ cleanupC = 0
  /\ cleanupStopped = FALSE
  /\ stopChan = FALSE
  /\ poolMu = [i \in PoolIds |-> NoOne]
  /\ address = [i \in PoolIds |-> NoAddress]
  /\ unaryConns = [i \in PoolIds |-> <<>>]
  /\ streamConns = [i \in PoolIds |-> <<>>]
  /\ nextPool = 0
  /\ nextConn = 0
  /\ connState = [c \in ConnIds |-> "none"]
  /\ closeCount = [c \in ConnIds |-> 0]
  /\ now = 0
  /\ pc = [p \in Procs |-> IF p = Reclaimer THEN "select" ELSE "idle"]
  /\ local = [p \in Procs |-> Local0]
  /\ calls = 0
  /\ ret = Ret0
  /\ out = [c \in ConnIds |-> 0]
  /\ dialed = [c \in ConnIds |-> [address |-> NoAddress, isStream |-> FALSE]]
  /\ closeFailed = {}

Next ==
  \/ \E p \in Clients, a \in OneAddress, s \in BOOLEAN : GetConn(p, a, s)
  \/ \E p \in Clients : GetConn_locked(p)
  \/ \E p \in Clients : GetConn_select(p)
  \/ \E p \in Clients : GetConn_dial(p)
  \/ \E p \in Clients, c \in ConnIds \cup {Foreign} : ReleaseConn(p, c)
  \/ \E p \in Clients : ReleaseConn_range(p)
  \/ Ticker
  \/ cleanupLoop_tick
  \/ cleanupLoop_rlock
  \/ cleanupLoop_stop
  \/ cleanupLoop_range
  \/ \E p \in Clients, a \in OneAddress : CloseAddress(p, a)
  \/ \E p \in Clients : CloseAddress_locked(p)
  \/ \E p \in Clients : CloseAddress_pool(p)
  \/ \E p \in Clients : Close(p)
  \/ \E p \in Clients : Close_wait(p)
  \/ \E p \in Clients : Close_lock(p)
  \/ \E p \in Clients : Close_range(p)
  \/ \E c \in ConnIds, st \in ConnStates : StateChange(c, st)
  \/ Tick

Spec == Init /\ [][Next]_vars

\* callers that use two addresses, so that `range p.pools` visits several
\* AddressPools; the clock and the cleanup goroutine stand still
NextRange ==
  \/ \E p \in Clients, a \in Addresses, s \in BOOLEAN : GetConn(p, a, s)
  \/ \E p \in Clients : GetConn_locked(p)
  \/ \E p \in Clients : GetConn_select(p)
  \/ \E p \in Clients : GetConn_dial(p)
  \/ \E p \in Clients, c \in ConnIds \cup {Foreign} : ReleaseConn(p, c)
  \/ \E p \in Clients : ReleaseConn_range(p)
  \/ \E p \in Clients, a \in Addresses : CloseAddress(p, a)
  \/ \E p \in Clients : CloseAddress_locked(p)
  \/ \E p \in Clients : CloseAddress_pool(p)
  \/ \E c \in ConnIds, st \in ConnStates : StateChange(c, st)

SpecRange == Init /\ [][NextRange]_vars

\* callers that use two addresses and read the statistics; the clock and the
\* cleanup goroutine stand still
NextStats ==
  \/ \E p \in Clients, a \in Addresses, s \in BOOLEAN : GetConn(p, a, s)
  \/ \E p \in Clients : GetConn_locked(p)
  \/ \E p \in Clients : GetConn_select(p)
  \/ \E p \in Clients : GetConn_dial(p)
  \/ \E p \in Clients, c \in ConnIds : ReleaseConn(p, c)
  \/ \E p \in Clients : ReleaseConn_range(p)
  \/ \E p \in Clients : Stats(p)
  \/ \E p \in Clients : Stats_range(p)
  \/ \E c \in ConnIds, st \in ConnStates : StateChange(c, st)

SpecStats == Init /\ [][NextStats]_vars

\* callers that use two addresses and close the pool; the clock and the
\* cleanup goroutine stand still
NextClose ==
  \/ NextRange
  \/ \E p \in Clients : Close(p)
  \/ \E p \in Clients : Close_wait(p)
  \/ \E p \in Clients : Close_lock(p)
  \/ \E p \in Clients : Close_range(p)

SpecClose == Init /\ [][NextClose]_vars

\* the Go scheduler runs every goroutine that can take a step, a blocked Lock
\* or RLock returns once the lock is free, grpc.Dial returns, the ticker keeps
\* delivering ticks until it is stopped, and time passes
Fairness ==
  /\ WF_vars(Ticker)
  /\ WF_vars(Tick)
  /\ WF_vars(cleanupLoop_tick)
  /\ WF_vars(cleanupLoop_rlock)
  /\ WF_vars(cleanupLoop_range)
  /\ \A p \in Clients :
       /\ WF_vars(GetConn_locked(p))
       /\ WF_vars(GetConn_select(p))
       /\ WF_vars(GetConn_dial(p))
       /\ WF_vars(ReleaseConn_range(p))
       /\ WF_vars(CloseAddress_locked(p))
       /\ WF_vars(CloseAddress_pool(p))
       /\ WF_vars(Close_wait(p))
       /\ WF_vars(Close_lock(p))
       /\ WF_vars(Close_range(p))

\* callers that get and release unary connections of one address and close the
\* pool, next to the cleanup goroutine, the ticker and the clock
NextSweep ==
  \/ \E p \in Clients, a \in OneAddress : GetConn(p, a, FALSE)
  \/ \E p \in Clients : GetConn_locked(p)
  \/ \E p \in Clients : GetConn_select(p)
  \/ \E p \in Clients : GetConn_dial(p)
  \/ \E p \in Clients, c \in ConnIds : ReleaseConn(p, c)
  \/ \E p \in Clients : ReleaseConn_range(p)
  \/ Ticker
  \/ cleanupLoop_tick
  \/ cleanupLoop_rlock
  \/ cleanupLoop_stop
  \/ cleanupLoop_range
  \/ \E p \in Clients : Close(p)
  \/ \E p \in Clients : Close_wait(p)
  \/ \E p \in Clients : Close_lock(p)
  \/ \E p \in Clients : Close_range(p)
  \/ \E c \in ConnIds, st \in ConnStates : StateChange(c, st)
  \/ Tick

SpecLive == Init /\ [][NextSweep]_vars /\ Fairness

\* ---------------------------------------------------------------- properties
Modes == BOOLEAN

ConnsNext(pid, isStream) == IF isStream THEN streamConns'[pid] ELSE unaryConns'[pid]

\* positions of the entries of one collection
Indexes(pid, isStream) == 1..Len(Conns(pid, isStream))

\* the entries of all AddressPools, as <<pool, mode, position>>
Slots ==
  UNION {{<<pid, s, i>> : i \in Indexes(pid, s)} : pid \in PoolIds, s \in Modes}

\* the entries of the AddressPools of the address map
MappedSlots == {x \in Slots : x[1] \in MappedPools}

Entry(x) == Conns(x[1], x[2])[x[3]]

\* handle c is held by an entry of an AddressPool of the address map
HeldInMap(c) == \E x \in MappedSlots : Entry(x).conn = c

\* ReleaseConn calls with handle c that have not reached the entry yet
Releasing(c) ==
  Cardinality({p \in Clients : pc[p] = "ReleaseConn_range" /\ local[p].conn = c})

\* goroutine p takes the step that ends its call
Returns(p) == pc[p] # "idle" /\ pc'[p] = "idle"

Saturating == config.MaxConnsPerAddr = 1 /\ config.MaxLoadPerConn = 1

\* every collection but (pid, isStream) is left as it is
OthersUnchanged(pid, isStream) ==
  \A q \in PoolIds, t \in Modes :
    (q # pid \/ t # isStream) => ConnsNext(q, t) = Conns(q, t)

\* C1: in every reachable state the unary and the stream collection of every
\* AddressPool (in the map or not) hold at most MaxConnsPerAddr entries each.
C1_Capacity ==
  \A pid \in PoolIds, s \in Modes : Len(Conns(pid, s)) <= config.MaxConnsPerAddr

\* a collection of two entries is full and a further GetConn was turned away
C1_Witness ==
  /\ ret.err = "PoolExhausted"
  /\ \E pid \in PoolIds, s \in Modes :
       Len(Conns(pid, s)) = config.MaxConnsPerAddr /\ Len(Conns(pid, s)) = 2

C3_LoadNonNegative ==
  \A x \in Slots : Entry(x).load >= 0

\* C4: no entry's load ever exceeds MaxLoadPerConn.
C4_LoadBounded ==
  \A x \in Slots : Entry(x).load <= config.MaxLoadPerConn

\* GetConn just handed out the last free slot of an entry that was reused
C4_Witness ==
  /\ ret.op = "GetConn" /\ ret.err = "nil"
  /\ \E x \in Slots :
       /\ Entry(x).conn = ret.conn
       /\ Entry(x).load = config.MaxLoadPerConn
       /\ config.MaxLoadPerConn = 2

\* C5: a successful GetConn checks out exactly one entry: a reused entry gets
\* its load raised by exactly one and no other entry's load changes, a created
\* entry is appended to the collection of the requested mode with load 1 and
\* no existing entry changes.
C5_CheckoutOne ==
  [][\A p \in Clients :
       (Returns(p) /\ ret'.op = "GetConn" /\ ret'.err = "nil") =>
         LET pid == local[p].pool
             s == local[p].isStream
             old == Conns(pid, s)
             new == ConnsNext(pid, s)
         IN /\ OthersUnchanged(pid, s)
            /\ \/ /\ pc[p] = "GetConn_pool"
                  /\ Len(new) = Len(old)
                  /\ \E i \in 1..Len(old) :
                       /\ old[i].conn = ret'.conn
                       /\ new[i].load = old[i].load + 1
                       /\ \A j \in 1..Len(old) : j # i => new[j].load = old[j].load
               \/ /\ pc[p] = "GetConn_dial"
                  /\ Len(new) = Len(old) + 1
                  /\ SubSeq(new, 1, Len(old)) = old
                  /\ new[Len(new)].conn = ret'.conn
                  /\ new[Len(new)].load = 1
                  /\ new[Len(new)].isStream = s
                  /\ \A i \in 1..Len(old) : old[i].conn # ret'.conn]_vars

\* a collection holds a created entry next to an entry that was reused
C5_Witness ==
  /\ ret.op = "GetConn" /\ ret.err = "nil"
  /\ \E pid \in PoolIds, s \in Modes :
       /\ Len(Conns(pid, s)) = 2
       /\ \E i \in 1..2 : Conns(pid, s)[i].conn = ret.conn /\ Conns(pid, s)[i].load = 2

\* no entry of the collection is Ready with room left
NoneAvailable(conns) ==
  \A i \in 1..Len(conns) :
    ~(connState[conns[i].conn] = "Ready" /\ conns[i].load < config.MaxLoadPerConn)

\* C6: GetConn fails with PoolExhausted exactly when the collection of the
\* requested mode holds MaxConnsPerAddr entries and none of them is Ready with
\* load < MaxLoadPerConn; it then fails in the step that scanned the collection,
\* without a dial.
C6_Exhausted ==
  [][\A p \in Clients :
       /\ (pc[p] = "GetConn_pool" /\ pc'[p] # "GetConn_pool") =>
            LET conns == Conns(local[p].pool, local[p].isStream)
            IN /\ (pc'[p] = "idle" /\ ret'.err = "PoolExhausted")
                    <=> (Len(conns) = config.MaxConnsPerAddr /\ NoneAvailable(conns))
               /\ ret'.err = "PoolExhausted" => nextConn' = nextConn /\ ret'.conn = NoConn
       /\ (pc[p] # "GetConn_pool" /\ Returns(p)) => ret'.err # "PoolExhausted"]_vars

\* a full collection without an available entry turned a GetConn away, while
\* an entry of it has room but is not Ready
C6_Witness ==
  /\ ret.op = "GetConn" /\ ret.err = "PoolExhausted"
  /\ \E x \in Slots :
       /\ Entry(x).load < config.MaxLoadPerConn
       /\ connState[Entry(x).conn] # "Ready"

\* C7: a GetConn that fails with DialFailed or PoolExhausted returns no handle,
\* adds no entry and changes no entry; a dial that produced no connection ends
\* the call with DialFailed and is not repeated.
C7_FailureFrame ==
  [][\A p \in Clients :
       /\ (Returns(p) /\ ret'.op = "GetConn" /\ ret'.err \in {"DialFailed", "PoolExhausted"})
            => /\ ret'.conn = NoConn
               /\ unaryConns' = unaryConns /\ streamConns' = streamConns
               /\ nextConn' = nextConn /\ connState' = connState
       /\ (pc[p] = "GetConn_dial" /\ pc'[p] # "GetConn_dial" /\ nextConn' = nextConn)
            => Returns(p) /\ ret'.err = "DialFailed"]_vars

\* a dial failed while the AddressPool holds an entry
C7_Witness ==
  /\ ret.op = "GetConn" /\ ret.err = "DialFailed"
  /\ HeldHandles # {}

\* C8: for every entry of an AddressPool of the address map, load = (GetConn
\* calls that returned its handle) - (ReleaseConn calls with its handle that
\* have reached it); so after N successful GetConn and one ReleaseConn of each
\* returned handle, all of them completed, the load is 0.
C8_LoadBalance ==
  \A x \in MappedSlots :
    LET e == Entry(x)
    IN /\ e.load = out[e.conn] + Releasing(e.conn)
       /\ (out[e.conn] = 0 /\ Releasing(e.conn) = 0) => e.load = 0

\* the last handle checked out was released and its entry is back at load 0
C8_Witness ==
  /\ ret.op = "ReleaseConn"
  /\ \E x \in MappedSlots :
       /\ Entry(x).conn = ret.conn
       /\ out[ret.conn] = 0
       /\ Entry(x).load = 0

\* C9: ReleaseConn with a handle held by an entry of an AddressPool of the map
\* lowers the load of that entry by exactly one and changes nothing else: no
\* handle is closed, no entry is added or removed, no other entry changes, the
\* entry keeps its lastUsed and createdAt.
C9_ReleaseFrame ==
  [][\A p \in Clients :
       (pc[p] = "ReleaseConn_range" /\ HeldInMap(local[p].conn)
          /\ <<pc[p], local[p]>>' # <<pc[p], local[p]>>) =>
         /\ connState' = connState /\ closeCount' = closeCount
         /\ pools' = pools /\ poolsNil' = poolsNil
         /\ IF Returns(p)
            THEN \E x \in MappedSlots :
                   /\ Entry(x).conn = local[p].conn
                   /\ ConnsNext(x[1], x[2]) =
                        [Conns(x[1], x[2]) EXCEPT ![x[3]].load = Entry(x).load - 1]
                   /\ OthersUnchanged(x[1], x[2])
            ELSE unaryConns' = unaryConns /\ streamConns' = streamConns]_vars

\* a handle was released and its entry found while the AddressPool of another
\* address holds an entry that stays checked out
C9_Witness ==
  /\ ret.op = "ReleaseConn"
  /\ \E x, y \in MappedSlots :
       /\ x[1] # y[1]
       /\ Entry(x).conn = ret.conn /\ Entry(x).load = 0
       /\ Entry(y).load = 1

\* C10: ReleaseConn with a handle that no entry of an AddressPool of the map
\* holds returns without an error and leaves the map, every collection, every
\* entry and every handle as they are.
C10_ReleaseUnknown ==
  [][\A p \in Clients :
       /\ (pc[p] = "ReleaseConn_range" /\ ~HeldInMap(local[p].conn)
             /\ <<pc[p], local[p]>>' # <<pc[p], local[p]>>)
            => /\ unaryConns' = unaryConns /\ streamConns' = streamConns
               /\ pools' = pools /\ poolsNil' = poolsNil
               /\ connState' = connState /\ closeCount' = closeCount
               /\ Returns(p) => ret'.op = "ReleaseConn" /\ ret'.err = "nil"
       /\ (pc[p] = "idle" /\ (pc'[p] = "ReleaseConn_range" \/ ret'.op = "ReleaseConn")
             /\ calls' # calls)
            => /\ unaryConns' = unaryConns /\ streamConns' = streamConns
               /\ pools' = pools /\ poolsNil' = poolsNil
               /\ connState' = connState /\ closeCount' = closeCount]_vars

\* a handle the pool has closed and dropped was released while the AddressPool
\* of the map holds another entry
C10_Witness ==
  /\ ret.op = "ReleaseConn" /\ ret.err = "nil"
  /\ ret.conn \in ConnIds /\ connState[ret.conn] = "Shutdown"
  /\ closeCount[ret.conn] = 1 /\ ret.conn \notin HeldHandles
  /\ \E pid \in MappedPools : PoolHandles(pid) # {}

\* the cleanup goroutine takes the step that runs its loops over AddressPool pid
Sweeps(pid) ==
  /\ pc[Reclaimer] = "cleanup_range"
  /\ pid \in local[Reclaimer].todo
  /\ pid \notin local'[Reclaimer].todo

\* the step calls Close on handle c and drops it from collection (pid, isStream)
ClosedAndRemoved(c, pid, isStream) ==
  /\ connState'[c] = "Shutdown"
  /\ closeCount'[c] = closeCount[c] + 1
  /\ c \notin Range(Handles(ConnsNext(pid, isStream)))

\* every AddressPool allocated so far is still in the address map: neither
\* CloseAddress nor Close has removed one
AllMapped == \A pid \in 1..nextPool : pid \in MappedPools

\* C11: a sweep of the cleanup goroutine closes and removes every entry whose
\* handle is in TransientFailure or Shutdown when the sweep looks at it,
\* whatever its load; after the sweep of a collection no such entry is left.
C11_FailedEvicted ==
  [][\A pid \in PoolIds, s \in Modes :
       Sweeps(pid) =>
         /\ \A i \in Indexes(pid, s) :
              IsFailed(Conns(pid, s)[i].conn)
                => ClosedAndRemoved(Conns(pid, s)[i].conn, pid, s)
         /\ \A j \in 1..Len(ConnsNext(pid, s)) :
              ~IsFailed(ConnsNext(pid, s)[j].conn)]_vars

\* a sweep has closed and dropped a handle that a caller still holds
C11_Witness ==
  /\ ret.op = "cleanupLoop" /\ ret.conn = NoConn
  /\ AllMapped
  /\ \E c \in Issued :
       out[c] > 0 /\ closeCount[c] = 1 /\ c \notin HeldHandles

\* C13: a sweep neither closes nor removes an entry whose load is > 0 and whose
\* handle is not in TransientFailure or Shutdown, however long ago it was last
\* used or created.
C13_InUseKept ==
  [][\A pid \in PoolIds, s \in Modes :
       Sweeps(pid) =>
         \A i \in Indexes(pid, s) :
           LET e == Conns(pid, s)[i]
           IN (e.load > 0 /\ ~IsFailed(e.conn))
                => /\ e \in Range(ConnsNext(pid, s))
                   /\ connState'[e.conn] = connState[e.conn]
                   /\ closeCount'[e.conn] = closeCount[e.conn]]_vars

\* a sweep has left an entry alone that is checked out and past its idle time
C13_Witness ==
  /\ ret.op = "cleanupLoop"
  /\ \E x \in MappedSlots :
       /\ Entry(x).load > 0
       /\ ~IsFailed(Entry(x).conn)
       /\ Expired(Entry(x))

\* handle c is held by an entry of the address map that the idle test of the
\* cleanup loop removes: load 0 and past its idle time or its lifetime
IdleExpired(c) ==
  \E x \in MappedSlots :
    Entry(x).conn = c /\ Entry(x).load = 0 /\ Expired(Entry(x))

\* C12: a sweep closes and removes every entry that has load 0 and is past
\* ConnMaxIdleTime since lastUsed or past ConnMaxLifetime since createdAt when
\* the sweep looks at it; and while the cleanup goroutine keeps running, such an
\* entry does not stay in its collection for ever: it is removed unless it is
\* checked out again first.
C12_IdleEvicted ==
  /\ [][\A pid \in PoolIds, s \in Modes :
          Sweeps(pid) =>
            \A i \in Indexes(pid, s) :
              LET e == Conns(pid, s)[i]
              IN (e.load = 0 /\ Expired(e)) => ClosedAndRemoved(e.conn, pid, s)]_vars
  /\ \A c \in ConnIds : IdleExpired(c) ~> (~IdleExpired(c) \/ cleanupStopped)

\* a sweep has closed and dropped a released handle that was not broken
C12_Witness ==
  /\ ret.op = "cleanupLoop"
  /\ ret.conn \in Issued
  /\ out[ret.conn] = 0
  /\ closeCount[ret.conn] = 1
  /\ ret.conn \notin HeldHandles

\* C14 as stated: once Close has returned (the address map is gone), every
\* connection the pool has dialed is closed: no open connection of the pool is
\* left, whatever GetConn, ReleaseConn and the cleanup goroutine did meanwhile.
C14_CloseAll ==
  poolsNil => /\ MappedPools = {}
              /\ \A c \in Issued : connState[c] = "Shutdown"

\* the cleanup goroutine takes a tick from cleanup.C: a sweep begins
SweepBegins == pc[Reclaimer] = "select" /\ cleanupC = 1 /\ cleanupC' = 0

CallsClose(p) ==
  /\ pc[p] = "idle" /\ calls' # calls
  /\ pc'[p] = "Close_lock" \/ (ret'.op = "Close" /\ ret'.p = p)

\* C16: a Close call on a pool whose stop signal was already sent by an earlier
\* Close panics at close(stopChan), before it takes a lock or touches a handle
\* or the map, and does not go on to drain; the first Close does not panic.
C16_CloseOnce ==
  [][\A p \in Clients :
       CallsClose(p) =>
         IF stopChan
         THEN /\ ret' = [Ret0 EXCEPT !.p = p, !.op = "Close", !.err = "panic"]
              /\ pc'[p] = "idle"
              /\ mu' = mu /\ poolMu' = poolMu
              /\ UNCHANGED <<poolVars, connVars>>
         ELSE pc'[p] = "Close_lock" /\ stopChan']_vars

\* a second Close panicked after the first one had returned
C16_Witness ==
  /\ ret.op = "Close" /\ ret.err = "panic"
  /\ poolsNil

\* caller p takes the step of CloseAddress that looks the address up in the map
CloseAddressLooksUp(p) ==
  \/ /\ pc[p] = "idle" /\ calls' # calls
     /\ pc'[p] = "CloseAddress_pool" \/ (ret'.op = "CloseAddress" /\ ret'.p = p)
  \/ pc[p] = "CloseAddress" /\ pc'[p] # "CloseAddress"

\* C17: a CloseAddress for an address that has no AddressPool in the map (never
\* had one, or an earlier CloseAddress or Close removed it) returns nil at the
\* lookup, closes no handle and leaves the map, the AddressPools and the
\* handles unchanged; only a CloseAddress that found an AddressPool goes on.
C17_CloseAddressIdempotent ==
  [][\A p \in Clients :
       CloseAddressLooksUp(p) =>
         IF pc'[p] = "CloseAddress_pool"
         THEN ~poolsNil /\ pools[local'[p].address] = local'[p].pool
                /\ local'[p].pool # NoPool
         ELSE /\ ret' = [Ret0 EXCEPT !.p = p, !.op = "CloseAddress", !.err = "nil"]
              /\ pc[p] = "CloseAddress"
                   => (poolsNil \/ pools[local[p].address] = NoPool)
              /\ poolMu' = poolMu
              /\ UNCHANGED <<poolVars, connVars>>]_vars

\* a second CloseAddress has returned while the first one, which took the only
\* AddressPool out of the map, has not closed its handles yet
C17_Witness ==
  /\ ret.op = "CloseAddress" /\ ret.err = "nil"
  /\ nextPool = 1
  /\ PoolHandles(1) # {}
  /\ \E q \in Clients : q # ret.p /\ pc[q] = "CloseAddress_pool"

\* caller p takes the step of GetConn that looks the address up in the map and
\* goes on with an AddressPool
GetConnLooksUp(p) ==
  /\ pc[p] \in {"idle", "GetConn"}
  /\ pc'[p] = "GetConn_pool"

\* C18: a GetConn that looks the address up after CloseAddress removed its
\* AddressPool works on a fresh AddressPool: when the map has none for the
\* address it allocates a new, empty one and maps it, otherwise it takes the one
\* the map holds (never a removed one); an empty collection sends it to
\* grpc.Dial; a handle enters a collection only as a fresh dial, and the handle
\* a GetConn returns is held by the AddressPool it works on and by no other, so
\* it never belonged to the removed AddressPool.
C18_FreshPool ==
  [][/\ \A p \in Clients :
          /\ GetConnLooksUp(p) =>
               LET a == local'[p].address
                   pid == local'[p].pool
               IN /\ pools'[a] = pid /\ pid # NoPool
                  /\ IF pools[a] = NoPool
                     THEN /\ pid = nextPool + 1 /\ nextPool' = pid
                          /\ unaryConns[pid] = <<>> /\ streamConns[pid] = <<>>
                     ELSE pid = pools[a] /\ nextPool' = nextPool
          /\ (pc[p] = "GetConn_pool" /\ pc'[p] # "GetConn_pool"
                /\ Conns(local[p].pool, local[p].isStream) = <<>>)
               => pc'[p] = "GetConn_dial"
          /\ (Returns(p) /\ ret'.op = "GetConn" /\ ret'.err = "nil") =>
               /\ ret'.conn \in
                    Range(Handles(ConnsNext(local[p].pool, local[p].isStream)))
               /\ \A q \in PoolIds \ {local[p].pool} :
                    ret'.conn \notin PoolHandles(q)
     /\ \A pid \in PoolIds, s \in Modes :
          \A c \in Range(Handles(ConnsNext(pid, s))) \ Range(Handles(Conns(pid, s))) :
            c = nextConn + 1 /\ nextConn' = c]_vars

\* after CloseAddress removed the first AddressPool with its handle, a GetConn
\* was served from the second AddressPool
C18_Witness ==
  /\ ret.op = "GetConn" /\ ret.err = "nil"
  /\ nextPool = 2 /\ ~poolsNil /\ \E a \in Addresses : pools[a] = 2 /\ address[1] = a
  /\ ret.conn \in PoolHandles(2)
  /\ \E c \in Issued : c # ret.conn /\ closeCount[c] = 1 /\ c \notin HeldHandles

\* the handles of AddressPool pid in the order CloseAddress and Close close them
CloseOrder(pid) == Handles(unaryConns[pid]) \o Handles(streamConns[pid])

\* the handle whose error a run over cs ends with, prev if no Close of cs failed
RECURSIVE LastFailing(_, _, _)
LastFailing(cs, failed, prev) ==
  IF cs = <<>> THEN prev
  ELSE LastFailing(Tail(cs), failed, IF Head(cs) \in failed THEN Head(cs) ELSE prev)

\* the step closes every handle of AddressPool pid, empties both collections,
\* and goes on with the error of the last Close that failed
ClosesPool(pid, prev, result) ==
  /\ \A c \in Range(CloseOrder(pid)) :
       connState'[c] = "Shutdown" /\ closeCount'[c] = closeCount[c] + 1
  /\ unaryConns'[pid] = <<>> /\ streamConns'[pid] = <<>>
  /\ result = LastFailing(CloseOrder(pid), closeFailed', prev)

\* C19: CloseAddress and Close call Close on every handle of both collections
\* of every AddressPool in scope, whether or not some of these calls fail, and
\* return the error of the last handle whose Close failed, nil if none failed.
C19_CloseErrors ==
  [][\A p \in Clients :
       /\ (pc[p] = "CloseAddress_pool" /\ pc'[p] # "CloseAddress_pool") =>
            /\ Returns(p) /\ ret'.op = "CloseAddress"
            /\ ClosesPool(local[p].pool, NoConn, ret'.conn)
            /\ ret'.err = IF ret'.conn = NoConn THEN "nil" ELSE "CloseError"
       /\ \A pid \in PoolIds :
            (pc[p] = "Close_range" /\ pid \in local[p].todo
               /\ pid \notin local'[p].todo) =>
              IF Returns(p)
              THEN /\ ret'.op = "Close"
                   /\ ClosesPool(pid, local[p].lastErr, ret'.conn)
                   /\ ret'.err = IF ret'.conn = NoConn THEN "nil" ELSE "CloseError"
              ELSE ClosesPool(pid, local[p].lastErr, local'[p].lastErr)
       /\ pc'[p] = "Close_range" /\ pc[p] # "Close_range"
            => local'[p].lastErr = NoConn]_vars

\* Close has returned the error of the handle it closed last, after the Close
\* of a handle of another AddressPool had failed too
C19_Witness ==
  /\ ret.op = "Close" /\ ret.err = "CloseError"
  /\ \E c \in closeFailed :
       /\ c # ret.conn
       /\ dialed[c].address # dialed[ret.conn].address
       /\ connState[c] = "Shutdown"

\* stats["unary"] or stats["stream"]
ModeStats(stats, isStream) == IF isStream THEN stats.stream ELSE stats.unary

RECURSIVE SumLoad(_)
SumLoad(conns) == IF conns = <<>> THEN 0 ELSE Head(conns).load + SumLoad(Tail(conns))

\* the counters the claim gives for a collection
Counted(conns) ==
  LET idx == 1..Len(conns)
  IN [total_connections |-> Len(conns),
      ready_connections |->
        Cardinality({i \in idx : connState[conns[i].conn] = "Ready"}),
      idle_connections |->
        Cardinality({i \in idx : connState[conns[i].conn] = "Ready"
                                   /\ conns[i].load = 0}),
      failed_connections |->
        Cardinality({i \in idx : connState[conns[i].conn]
                                     \in {"TransientFailure", "Shutdown"}}),
      total_load |-> SumLoad(conns)]

\* the sum of the counters of the addresses in keys
RECURSIVE SumCounters(_, _)
SumCounters(by, keys) ==
  IF keys = {} THEN Counters0
  ELSE LET a == CHOOSE x \in keys : TRUE
           rest == SumCounters(by, keys \ {a})
       IN [total_connections |-> by[a].total_connections + rest.total_connections,
           ready_connections |-> by[a].ready_connections + rest.ready_connections,
           idle_connections |-> by[a].idle_connections + rest.idle_connections,
           failed_connections |-> by[a].failed_connections + rest.failed_connections,
           total_load |-> by[a].total_load + rest.total_load]

C21_ModePartition ==
  /\ [](\A x, y \in Slots : Entry(x).conn = Entry(y).conn => x = y)
  /\ [](\A x \in Slots :
          Entry(x).isStream = x[2] /\ dialed[Entry(x).conn].isStream = x[2])
  /\ [][\A p \in Clients :
          (Returns(p) /\ ret'.op = "GetConn" /\ ret'.err = "nil") =>
            /\ ret'.conn \in
                 Range(Handles(ConnsNext(local[p].pool, local[p].isStream)))
            /\ ret'.conn \notin
                 Range(Handles(ConnsNext(local[p].pool, ~local[p].isStream)))
            /\ dialed'[ret'.conn].isStream = local[p].isStream]_vars

\* a GetConn for a stream got a handle of the stream collection of an
\* AddressPool whose unary collection holds an entry too
C21_Witness ==
  /\ ret.op = "GetConn" /\ ret.err = "nil"
  /\ \E pid \in PoolIds :
       /\ unaryConns[pid] # <<>>
       /\ ret.conn \in Range(Handles(streamConns[pid]))

\* the entries of AddressPool pid, both modes, after the step
EntriesNext(pid) == unaryConns'[pid] \o streamConns'[pid]

\* the number of entries of cs that are not checked out
RECURSIVE IdleCount(_)
IdleCount(cs) ==
  IF cs = <<>> THEN 0
  ELSE (IF Head(cs).load = 0 THEN 1 ELSE 0) + IdleCount(Tail(cs))

\* C22 as stated: the idle eviction of a sweep keeps the minimum: a collection
\* of MinConnsPerAddr or more entries none of which is broken still has
\* MinConnsPerAddr entries after the sweep.
C22_MinKept ==
  [][\A pid \in PoolIds, s \in Modes :
       (/\ Sweeps(pid)
        /\ Len(Conns(pid, s)) >= config.MinConnsPerAddr
        /\ \A i \in Indexes(pid, s) : ~IsFailed(Conns(pid, s)[i].conn))
         => Len(ConnsNext(pid, s)) >= config.MinConnsPerAddr]_vars

\* C23 as stated: after the sweep of an AddressPool, the address holds at most
\* MaxIdleConns entries of load 0.
C23_IdleCapped ==
  [][\A pid \in PoolIds :
       Sweeps(pid) => IdleCount(EntriesNext(pid)) <= config.MaxIdleConns]_vars

\* the entry is Ready and has room
Available(connInfo) ==
  connState[connInfo.conn] = "Ready" /\ connInfo.load < config.MaxLoadPerConn

\* the position (1-based) the scan from start looks at in its k-th iteration
Circular(start, k, n) == ((start + k) % n) + 1

\* C24: GetConn goes through a collection circularly, once, from a start
\* index: the handle it takes from the collection is the one of the first entry
\* in circular order from the start index that is Ready with load below
\* MaxLoadPerConn, no entry before it in that order being so; it never returns
\* an entry that is not Ready or is at MaxLoadPerConn; and it goes on to dial,
\* or dials, only when no entry of the collection is Ready with room.
C24_CircularScan ==
  [][\A p \in Clients :
       /\ (pc[p] = "GetConn_pool" /\ pc'[p] # "GetConn_pool") =>
            LET conns == Conns(local[p].pool, local[p].isStream)
                n == Len(conns)
            IN /\ nextConn' = nextConn
               /\ (pc'[p] = "idle" /\ ret'.err = "nil") =>
                    /\ ret'.start \in 0..(n - 1)
                    /\ \E k \in 0..(n - 1) :
                         /\ conns[Circular(ret'.start, k, n)].conn = ret'.conn
                         /\ Available(conns[Circular(ret'.start, k, n)])
                         /\ \A j \in 0..(k - 1) :
                              ~Available(conns[Circular(ret'.start, j, n)])
               /\ pc'[p] = "GetConn_dial" => NoneAvailable(conns)
       /\ nextConn' # nextConn =>
            \E q \in Clients :
              /\ pc[q] = "GetConn_dial"
              /\ ret'.p = q /\ ret'.conn = nextConn'
              /\ ret'.conn \notin HeldHandles]_vars

\* the scan began at the second of two entries, found it not Ready, wrapped
\* around and took the first
C24_Witness ==
  /\ ret.op = "GetConn" /\ ret.err = "nil" /\ ret.start = 1
  /\ \E pid \in PoolIds, s \in Modes :
       /\ Len(Conns(pid, s)) = 2
       /\ Conns(pid, s)[1].conn = ret.conn
       /\ connState[Conns(pid, s)[2].conn] # "Ready"

\* the sweep leaves the entry in its collection: it is neither broken nor idle
\* past its idle time or lifetime
Kept(connInfo) ==
  /\ connState[connInfo.conn] \notin {"TransientFailure", "Shutdown"}
  /\ ~(connInfo.load = 0 /\ Expired(connInfo))

\* the positions of cs that hold x
Positions(cs, x) == {i \in 1..Len(cs) : cs[i] = x}

\* C25: the removal by swapping with the last entry neither skips nor
\* duplicates: a sweep judges every entry of a collection once, so the
\* collection afterwards holds exactly the entries that were neither broken nor
\* idle-expired, each once and unchanged, and the handle of every entry it
\* removed was closed once, by that sweep.
C25_SwapRemove ==
  [][\A pid \in PoolIds, s \in Modes :
       Sweeps(pid) =>
         LET conns == Conns(pid, s)
             after == ConnsNext(pid, s)
         IN /\ \A i \in 1..Len(conns) :
                 IF Kept(conns[i])
                 THEN /\ Cardinality(Positions(after, conns[i])) = 1
                      /\ closeCount'[conns[i].conn] = closeCount[conns[i].conn]
                 ELSE /\ Positions(Handles(after), conns[i].conn) = {}
                      /\ closeCount[conns[i].conn] = 0
                      /\ closeCount'[conns[i].conn] = 1
            /\ \A j \in 1..Len(after) : Positions(conns, after[j]) # {}]_vars

\* a sweep removed the first of two entries, closed its handle as idle, put
\* the last entry in its place and kept that one
C25_Witness ==
  /\ ret.op = "cleanupLoop" /\ ret.conn = 1
  /\ nextConn = 2 /\ dialed[1] = dialed[2]
  /\ closeCount[1] = 1 /\ closeCount[2] = 0
  /\ AllMapped
  /\ \E pid \in PoolIds, s \in Modes : Handles(Conns(pid, s)) = <<2>>

\* C26 as stated: the locking is deadlock-free: every operation that has begun
\* returns, and no lock stays taken for ever (so that a caller that waits for
\* p.mu or for the lock of an AddressPool gets it): the writer of p.mu lets go
\* of it, every reader of p.mu leaves, and the holder of an AddressPool's lock
\* unlocks it.
C26_DeadlockFree ==
  /\ \A p \in Clients : (pc[p] # "idle") ~> (pc[p] = "idle")
  /\ (mu.w # NoOne) ~> (mu.w = NoOne)
  /\ \A p \in Procs : (p \in mu.r) ~> (p \notin mu.r)
  /\ \A pid \in PoolIds : (poolMu[pid] # NoOne) ~> (poolMu[pid] = NoOne)

\* a CloseAddress call has taken AddressPool pid out of the map and is about to
\* close its handles
BeingClosed(pid) ==
  \E p \in Clients : pc[p] = "CloseAddress_pool" /\ local[p].pool = pid

\* C27 as stated: no connection is orphaned: every connection the pool has
\* dialed and that is not closed is held by an entry of the AddressPool the
\* address map holds for its address (or of the AddressPool a running
\* CloseAddress is closing).
C27_NoOrphan ==
  \A c \in Issued :
    connState[c] # "Shutdown" =>
      \/ /\ ~poolsNil
         /\ pools[dialed[c].address] # NoPool
         /\ c \in PoolHandles(pools[dialed[c].address])
      \/ \E pid \in PoolIds : BeingClosed(pid) /\ c \in PoolHandles(pid)

\* C28: the pool calls Close on a handle at most once, whether a sweep,
\* CloseAddress or Close does it.
C28_ClosedOnce ==
  \A c \in ConnIds : closeCount[c] <= 1

\* Close has closed the handle of a collection of capacity one whose earlier
\* handle a sweep or CloseAddress had closed before
C28_Witness ==
  /\ ret.op = "Close" /\ ret.err = "nil"
  /\ config.MaxConnsPerAddr = 1
  /\ nextConn = 2 /\ dialed[1] = dialed[2]
  /\ closeCount[1] = 1 /\ closeCount[2] = 1

\* C29: GetConn never returns a handle that the pool itself has closed by the
\* time it returns it.
C29_NotClosed ==
  [][\A p \in Clients :
       (Returns(p) /\ ret'.op = "GetConn" /\ ret'.err = "nil") =>
         /\ ret'.conn \in Issued'
         /\ closeCount'[ret'.conn] = 0]_vars

\* GetConn returned a handle for an address and mode for which the pool had
\* closed another handle before
C29_Witness ==
  /\ ret.op = "GetConn" /\ ret.err = "nil"
  /\ closeCount[ret.conn] = 0
  /\ \E c \in Issued :
       c # ret.conn /\ dialed[c] = dialed[ret.conn] /\ closeCount[c] = 1

\* caller p calls GetConn
CallsGetConn(p) ==
  /\ pc[p] = "idle" /\ calls' # calls
  /\ \/ pc'[p] \in {"GetConn", "GetConn_pool", "GetConn_dial"}
     \/ ret'.op = "GetConn" /\ ret'.p = p

\* C30: a GetConn that is called after Close has returned (the address map is
\* discarded) panics at the insertion into the map: it returns no handle, dials
\* nothing, creates no AddressPool and leaves the map discarded and every
\* collection as it is.
C30_AfterClose ==
  [][\A p \in Clients :
       (poolsNil /\ CallsGetConn(p)) =>
         /\ ret' = [Ret0 EXCEPT !.p = p, !.op = "GetConn", !.err = "panic"]
         /\ pc'[p] = "idle"
         /\ nextConn' = nextConn /\ connState' = connState
         /\ poolsNil' /\ pools' = pools /\ nextPool' = nextPool
         /\ unaryConns' = unaryConns /\ streamConns' = streamConns]_vars

\* a GetConn called after Close had closed a connection has panicked
C30_Witness ==
  /\ ret.op = "GetConn" /\ ret.err = "panic"
  /\ poolsNil
  /\ \E c \in Issued : closeCount[c] = 1

====
